---- MODULE Spec2Model ----
(***************************************************************************)
(* Model of the book_astors front-end: the two navigators                  *)
(* (src/navigation), the Dashboard screen and the two form screens         *)
(* (MobileNumber, OtpVarification).                                        *)
(*                                                                         *)
(* The user-interface state is one record, `app`.  Every handler is an     *)
(* operator from a state record (and its inputs) to the next state record, *)
(* so that the same handlers can be run on a second record, `twin`, to     *)
(* compare two runs that differ only in the text typed (SpecNI).           *)
(***************************************************************************)
EXTENDS Integers, Sequences, FiniteSets, TLC

VARIABLES app, twin, store, manager, db, clients

vars == <<app, twin, store, manager, db, clients>>

\* Everything outside the user interface: the documented state layer
\* (store), the NotificationManager (manager), the Firestore collections
\* (db) and the callers of the Firestore queries (clients).
backend == <<store, manager, db, clients>>

----------------------------------------------------------------------------
(* Bounds of the model *)

MaxStack == 3      \* deepest authentication stack explored
MaxSearch == 2     \* longest text typed into the dashboard search box
MaxLog == 2        \* most console lines kept
MaxTyped == 1      \* longest text typed per input when two runs are compared
MaxServices == 2   \* most services selected in the booking store
MaxSends == 2      \* most notifications sent by the NotificationManager
MaxClock == 3      \* last server time at which a document is written
MaxTokens == 2     \* longest fcmTokens array handed to upsertUser

Digits == {"1", "2"}      \* keys of the numeric keyboard that are pressed
Letters == {"a", "b"}     \* keys pressed in the dashboard search box

Range(f) == {f[i] : i \in DOMAIN f}

----------------------------------------------------------------------------
(* src/navigation/types.ts : the route declarations.  A parameter list is  *)
(* a sequence of [name, type] in declaration order.                        *)

\* AuthStackParamList as it would read if Login took a parameter object.
AuthStackParamListLoginParams ==
  << [name |-> "Login",          type |-> "{ phone: string }"],
     [name |-> "Register",       type |-> "undefined"],
     [name |-> "ForgotPassword", type |-> "undefined"] >>

AuthStackParamList ==
  << [name |-> "Login",          type |-> "undefined"],
     [name |-> "Register",       type |-> "undefined"],
     [name |-> "ForgotPassword", type |-> "undefined"] >>

MainTabParamList ==
  << [name |-> "Home",     type |-> "undefined"],
     [name |-> "Search",   type |-> "undefined"],
     [name |-> "Bookings", type |-> "undefined"],
     [name |-> "Profile",  type |-> "undefined"] >>

RootStackParamList ==
  << [name |-> "Auth", type |-> "NavigatorScreenParams<AuthStackParamList>"],
     [name |-> "Main", type |-> "NavigatorScreenParams<MainTabParamList>"] >>

RouteNamesOf(paramList) == {paramList[i].name : i \in DOMAIN paramList}

TypeOf(paramList, name) ==
  paramList[CHOOSE i \in DOMAIN paramList : paramList[i].name = name].type

\* The value a route carries when its parameter type is `undefined`.
Undefined == [type |-> "undefined", screen |-> "", inner |-> "undefined"]

NestedListOf(type) ==
  IF type = "NavigatorScreenParams<AuthStackParamList>" THEN AuthStackParamList
  ELSE IF type = "NavigatorScreenParams<MainTabParamList>" THEN MainTabParamList
  ELSE << >>

\* The parameter values a type-correct navigate call can pass for a type.
\* NavigatorScreenParams<L> names a screen of L together with that screen's
\* own parameters; an object type admits an object.
ParamValues(type) ==
  IF type = "undefined" THEN {Undefined}
  ELSE IF NestedListOf(type) # << >>
    THEN {[type |-> "NavigatorScreenParams", screen |-> NestedListOf(type)[i].name,
           inner |-> NestedListOf(type)[i].type] : i \in DOMAIN NestedListOf(type)}
    ELSE {[type |-> "object", screen |-> "", inner |-> "undefined"]}

----------------------------------------------------------------------------
(* Components and what they render (the static text of the component tree) *)

PlaceholderScreen(name) == << name \o " Screen" >>

LoginScreen == PlaceholderScreen("Login")
RegisterScreen == PlaceholderScreen("Register")
ForgotPasswordScreen == PlaceholderScreen("Forgot Password")
BookingsScreen == PlaceholderScreen("Bookings")
ProfileScreen == PlaceholderScreen("Profile")

\* The salon cards of the dashboard, in document order.
SalonCards ==
  << [name |-> "Beauty Salon",   location |-> "Ahmedabad",
      rating |-> "4.8 (120 reviews)", distance |-> "2.5 km away",
      services |-> "Hair, Nails, Spa",     button |-> "View"],
     [name |-> "Glamour Studio", location |-> "Ahmedabad",
      rating |-> "4.6 (89 reviews)",  distance |-> "3.2 km away",
      services |-> "Hair, Makeup, Facial", button |-> "Book Now"] >>

\* A dashboard whose search box filters: no card matches a typed text.
DashboardFiltered(s) ==
  IF s.searchText = << >> THEN [n \in DOMAIN SalonCards |-> SalonCards[n].name]
  ELSE << >>

\* What the Dashboard shows for a state: the salon cards are literals of the
\* component, so the state (the search text included) does not enter.
Dashboard(s) == [n \in DOMAIN SalonCards |-> SalonCards[n].name]

\* Text rendered by a component (the contents of inputs left out).
Render(component, s) ==
  CASE component = "LoginScreen"          -> LoginScreen
    [] component = "RegisterScreen"       -> RegisterScreen
    [] component = "ForgotPasswordScreen" -> ForgotPasswordScreen
    [] component = "BookingsScreen"       -> BookingsScreen
    [] component = "ProfileScreen"        -> ProfileScreen
    [] component = "Dashboard"            ->
         << "Good Morning, Rahul!", "NEARBY SALONS" >> \o Dashboard(s)
    [] component = "MobileNumber"         -> << "Mobile Number", "Continue" >>
    [] component = "OtpVarification"      -> << "Otp Varification", "Continue" >>
    [] OTHER                              -> << >>

----------------------------------------------------------------------------
(* The navigators: the screens each registers, in registration order *)

\* AuthNavigator with the Login route wired to the MobileNumber form.
AuthNavigatorLoginWired ==
  << [name |-> "Login",          component |-> "MobileNumber"],
     [name |-> "Register",       component |-> "RegisterScreen"],
     [name |-> "ForgotPassword", component |-> "ForgotPasswordScreen"] >>

AuthNavigator ==
  << [name |-> "Login",          component |-> "LoginScreen"],
     [name |-> "Register",       component |-> "RegisterScreen"],
     [name |-> "ForgotPassword", component |-> "ForgotPasswordScreen"] >>

\* MainNavigator with a fourth tab registered for the declared Search route.
MainNavigatorWithSearch ==
  << [name |-> "Home",     component |-> "Dashboard"],
     [name |-> "Search",   component |-> "SearchScreen"],
     [name |-> "Bookings", component |-> "BookingsScreen"],
     [name |-> "Profile",  component |-> "ProfileScreen"] >>

MainNavigator ==
  << [name |-> "Home",     component |-> "Dashboard"],
     [name |-> "Bookings", component |-> "BookingsScreen"],
     [name |-> "Profile",  component |-> "ProfileScreen"] >>

ScreenNames(navigator) == [i \in DOMAIN navigator |-> navigator[i].name]

ComponentOf(navigator, name) ==
  IF \E i \in DOMAIN navigator : navigator[i].name = name
    THEN navigator[CHOOSE i \in DOMAIN navigator : navigator[i].name = name].component
    ELSE "none"

Route(name, params) == [name |-> name, params |-> params]

\* Navigation state of a stack navigator after mounting: the first
\* registered screen is the only route.
InitialStack(navigator) ==
  [routeNames |-> ScreenNames(navigator),
   routes     |-> << Route(navigator[1].name, Undefined) >>,
   index      |-> 1]

\* Navigation state of a tab navigator after mounting: one route per
\* registered screen, the first focused.
InitialTabs(navigator) ==
  [routeNames |-> ScreenNames(navigator),
   routes     |-> [i \in DOMAIN navigator |-> Route(navigator[i].name, Undefined)],
   index      |-> 1]

IndexOf(seq, x) == CHOOSE i \in DOMAIN seq : seq[i] = x

FocusedRoute(nav) == nav.routes[nav.index]

----------------------------------------------------------------------------
(* Handlers of the navigators: state record -> state record *)

\* A navigation action that no navigator handles leaves the state as it is;
\* the container reports it (recorded in `unhandled`).
NotHandled(s, name) == [s EXCEPT !.unhandled = @ \cup {name}]

\* Pressing the i-th item of the tab bar focuses the i-th registered screen.
TabPress(s, i) == [s EXCEPT !.main.index = i]

\* navigate(name, params) dispatched to the tab navigator.
TabNavigate(s, name, params) ==
  IF name \in Range(s.main.routeNames)
    THEN LET i == IndexOf(s.main.routeNames, name)
         IN  [s EXCEPT !.main.index = i, !.main.routes[i].params = params]
    ELSE NotHandled(s, name)

\* push(name, params) dispatched to the stack navigator.
StackPush(s, name, params) ==
  IF name \in Range(s.auth.routeNames)
    THEN [s EXCEPT !.auth.routes = Append(@, Route(name, params)),
                   !.auth.index  = @ + 1]
    ELSE NotHandled(s, name)

\* Back gesture / pop() on the stack navigator (offered when it can go back).
StackPop(s) ==
  [s EXCEPT !.auth.routes = SubSeq(@, 1, Len(@) - 1),
            !.auth.index  = @ - 1]

\* navigate(name, params) dispatched to the stack navigator: nothing to do
\* when the route is focused already; otherwise the installed release of
\* the navigation library either goes back to an existing route of that
\* name (s.popToExisting) or pushes a new one.
StackNavigate(s, name, params) ==
  IF name \notin Range(s.auth.routeNames) THEN NotHandled(s, name)
  ELSE IF FocusedRoute(s.auth).name = name
    THEN [s EXCEPT !.auth.routes[s.auth.index].params = params]
  ELSE IF s.popToExisting /\ \E i \in DOMAIN s.auth.routes : s.auth.routes[i].name = name
    THEN LET i == CHOOSE j \in DOMAIN s.auth.routes :
                    /\ s.auth.routes[j].name = name
                    /\ \A k \in DOMAIN s.auth.routes :
                         s.auth.routes[k].name = name => k <= j
         IN  [s EXCEPT !.auth.routes = [SubSeq(@, 1, i) EXCEPT ![i].params = params],
                       !.auth.index  = i]
  ELSE StackPush(s, name, params)

\* navigate(name, params) on the root: focuses the Auth or Main navigator,
\* stores the parameters on the root route and forwards params.screen to
\* the nested navigator.
RootNavigate(s, name, params) ==
  LET i == IndexOf(s.root.routeNames, name)
      t == [s EXCEPT !.root.index = i, !.root.routes[i].params = params]
      inner == CHOOSE v \in ParamValues(params.inner) : TRUE
  IN  IF params.type # "NavigatorScreenParams" THEN t
      ELSE IF name = "Auth" THEN StackNavigate(t, params.screen, inner)
      ELSE TabNavigate(t, params.screen, inner)

----------------------------------------------------------------------------
(* Handlers of the screens *)

\* A limit that is tested one character too late.
ChangeTextOffByOne(text, key, maxLength) ==
  IF maxLength > 0 /\ Len(text) > maxLength THEN text ELSE Append(text, key)

\* A key pressed in a TextInput: the character is appended unless the
\* input already holds maxLength characters (maxLength 0: no limit).
ChangeText(text, key, maxLength) ==
  IF maxLength > 0 /\ Len(text) >= maxLength THEN text ELSE Append(text, key)

Backspace(text) == IF text = << >> THEN text ELSE SubSeq(text, 1, Len(text) - 1)

MobileMaxLength == 10
OtpMaxLength == 6

MobileNumberType(s, key) ==
  [s EXCEPT !.mobileText = ChangeText(@, key, MobileMaxLength)]

OtpVarificationType(s, key) ==
  [s EXCEPT !.otpText = ChangeText(@, key, OtpMaxLength)]

DashboardSearchType(s, key) ==
  [s EXCEPT !.searchText = ChangeText(@, key, 0)]

\* A Continue handler that validates: it returns early on an empty input.
MobileNumberContinueValidates(s) ==
  IF s.mobileText = << >> THEN s ELSE [s EXCEPT !.log = Append(@, "Continue")]

\* onPress of the Continue button of MobileNumber: console.log('Continue').
MobileNumberContinue(s) == [s EXCEPT !.log = Append(@, "Continue")]

\* A Continue handler that submits: it logs and clears the input.
OtpVarificationContinueResets(s) ==
  [s EXCEPT !.log = Append(@, "Continue"), !.otpText = << >>]

\* onPress of the Continue button of OtpVarification: console.log('Continue').
OtpVarificationContinue(s) == [s EXCEPT !.log = Append(@, "Continue")]

\* The View and Book Now touchables of the dashboard have no onPress.
DashboardPress(s, button) == s

----------------------------------------------------------------------------
(* The screen in front *)

FocusedComponent(s) ==
  IF s.mounted # "Navigation" THEN s.mounted
  ELSE IF FocusedRoute(s.root).name = "Auth"
    THEN ComponentOf(AuthNavigator, FocusedRoute(s.auth).name)
    ELSE ComponentOf(MainNavigator, FocusedRoute(s.main).name)

Screen(s) == Render(FocusedComponent(s), s)

OnDashboard(s) == FocusedComponent(s) = "Dashboard"
InAuth(s) == s.mounted = "Navigation" /\ FocusedRoute(s.root).name = "Auth"
InMain(s) == s.mounted = "Navigation" /\ FocusedRoute(s.root).name = "Main"

----------------------------------------------------------------------------
(* The documented state layer: the auth slice (Redux) and the booking      *)
(* store (Zustand).  null is the string "null"; users, services, dates     *)
(* and time slots are named by strings.                                    *)

Null == "null"
Users == {"u1", "u2"}
Errors == {"Invalid OTP"}
Services == {[id |-> "1", name |-> "Haircut"], [id |-> "2", name |-> "Shave"]}
Dates == {"2024-01-01"}
TimeSlots == {"10:00"}

\* The state a reducer is handed before the store holds one.
UndefinedState == [undefined |-> TRUE]

authInitialState == [user |-> Null, loading |-> FALSE, error |-> Null]

\* A setUser that also ends the loading phase.
setUserStopsLoading(state, payload) ==
  [state EXCEPT !.user = payload, !.error = Null, !.loading = FALSE]

setUser(state, payload) == [state EXCEPT !.user = payload, !.error = Null]

setLoading(state, payload) == [state EXCEPT !.loading = payload]

setError(state, payload) == [state EXCEPT !.error = payload, !.loading = FALSE]

logout(state) == [state EXCEPT !.user = Null, !.error = Null]

\* A reducer whose default case falls back to the initial state.
authReducerResets(state, action) ==
  LET current == IF state = UndefinedState THEN authInitialState ELSE state
  IN  CASE action.type = "auth/setUser"    -> setUser(current, action.payload)
        [] action.type = "auth/setLoading" -> setLoading(current, action.payload)
        [] action.type = "auth/setError"   -> setError(current, action.payload)
        [] action.type = "auth/logout"     -> logout(current)
        [] OTHER                           -> authInitialState

\* authSlice.reducer: the case reducer of the action's type, applied to the
\* state (the initial state when the state is undefined); any other action
\* returns the state.
authReducer(state, action) ==
  LET current == IF state = UndefinedState THEN authInitialState ELSE state
  IN  CASE action.type = "auth/setUser"    -> setUser(current, action.payload)
        [] action.type = "auth/setLoading" -> setLoading(current, action.payload)
        [] action.type = "auth/setError"   -> setError(current, action.payload)
        [] action.type = "auth/logout"     -> logout(current)
        [] OTHER                           -> current

\* Action types no case reducer of the auth slice answers to.
UnknownTypes == {"unknown", "auth/verifyOTP/fulfilled", "salons/setSalons"}

bookingInitialState ==
  [selectedServices |-> << >>, selectedDate |-> Null, selectedTimeSlot |-> Null]

\* An addService that keeps the selection free of duplicates.
addServiceUnique(state, service) ==
  IF service \in Range(state.selectedServices) THEN state
  ELSE [state EXCEPT !.selectedServices = Append(@, service)]

addService(state, service) ==
  [state EXCEPT !.selectedServices = Append(@, service)]

removeService(state, serviceId) ==
  [state EXCEPT !.selectedServices = SelectSeq(@, LAMBDA x : x.id # serviceId)]

setDate(state, date) == [state EXCEPT !.selectedDate = date]

setTimeSlot(state, time) == [state EXCEPT !.selectedTimeSlot = time]

clearBooking(state) ==
  [state EXCEPT !.selectedServices = bookingInitialState.selectedServices,
                !.selectedDate     = bookingInitialState.selectedDate,
                !.selectedTimeSlot = bookingInitialState.selectedTimeSlot]

Op(kind, arg) == [kind |-> kind, arg |-> arg]

InitialStore ==
  [auth          |-> authInitialState,
   booking       |-> bookingInitialState,
   notifications |-> << >>,
   lastOp        |-> Op("none", "")]

----------------------------------------------------------------------------
(* NotificationManager (notifications guide).  `manager` holds the         *)
(* position of initialize() and of sendBookingConfirmation(), the values   *)
(* they keep across an await and the calls made so far, in order.          *)

\* messaging().requestPermission() resolves to one of these statuses.
AuthorizationStatus == {"AUTHORIZED", "PROVISIONAL", "DENIED", "NOT_DETERMINED"}

\* FCMService.requestUserPermission: the value returned for a status.
requestUserPermission(authStatus) ==
  authStatus = "AUTHORIZED" \/ authStatus = "PROVISIONAL"

\* What messaging().getToken() can do: resolve to a token, resolve to an
\* empty value, or throw.
GetTokenOutcomes == {"mock-token", "", "throws"}

\* FCMService.getFCMToken: the token when there is one, null otherwise and
\* null when getToken threw.
getFCMToken(outcome) ==
  IF outcome = "throws" THEN Null
  ELSE IF outcome # "" THEN outcome ELSE Null

\* Date formatting of the notification body (formatDate is not part of
\* the guide).
formatDate(date) == date

\* notificationTemplates.bookingConfirmation
bookingConfirmation(salonName, date) ==
  [type  |-> "BOOKING_CONFIRMATION",
   title |-> "Booking Confirmed!",
   body  |-> "Your appointment at " \o salonName \o " on " \o date \o " is confirmed."]

\* The updateNotificationStatus reducer of the notification slice: the
\* notification becomes the first entry of the list.
updateNotificationStatus(notifications, payload) == << payload >> \o notifications

InitialManager ==
  [pc            |-> "idle",
   hasPermission |-> "unknown",
   token         |-> Null,
   calls         |-> << >>,
   sendPc        |-> "idle",
   pending       |-> [type |-> "", title |-> "", body |-> ""],
   sends         |-> 0,
   log           |-> << >>]

\* initialize(), first await: fcmService.requestUserPermission() resolves
\* to a status.
InitializePermission(m, authStatus) ==
  [m EXCEPT !.pc = "permission",
            !.hasPermission = IF requestUserPermission(authStatus) THEN "granted"
                              ELSE "denied",
            !.calls = Append(@, "requestUserPermission")]

\* initialize(), first await: requestPermission() rejects and so does
\* initialize().
InitializePermissionRejected(m) ==
  [m EXCEPT !.pc = "rejected", !.calls = Append(@, "requestUserPermission")]

\* initialize(), second await (when permission was granted).
InitializeToken(m, outcome) ==
  [m EXCEPT !.pc = "token",
            !.token = getFCMToken(outcome),
            !.calls = Append(@, "getFCMToken"),
            !.log = IF outcome = "throws"
                      THEN Append(@, "Error getting FCM token:") ELSE @]

\* initialize(), third await: this.updateFCMToken(token) saves the token
\* for the signed-in user; saved = FALSE when updateUserFCMToken rejects,
\* which rejects initialize().
InitializeSave(m, user, saved) ==
  IF user = Null THEN [m EXCEPT !.pc = "saved"]
  ELSE [m EXCEPT !.pc = IF saved THEN "saved" ELSE "rejected",
                 !.calls = Append(@, "updateUserFCMToken")]

\* initialize(), the rest: local notifications and handlers.
InitializeLocal(m) ==
  [m EXCEPT !.pc = "done",
            !.calls = @ \o << "configure", "createChannel",
                              "registerNotificationHandlers" >>]

\* initialize() reaches the local set-up when no await is left to make.
ReadyForLocal(m) ==
  \/ m.pc = "permission" /\ m.hasPermission = "denied"
  \/ m.pc = "token" /\ m.token = Null
  \/ m.pc = "saved"

\* sendBookingConfirmation(booking) up to the await of sendCloudNotification.
SendStart(m, booking) ==
  [m EXCEPT !.sendPc = "sending",
            !.pending = bookingConfirmation(booking.salonName, formatDate(booking.date)),
            !.sends = @ + 1]

\* The entry sendNotification dispatches after a successful send.
SentEntry(m) ==
  [id |-> m.sends, type |-> m.pending.type, title |-> m.pending.title,
   body |-> m.pending.body, status |-> "sent"]

\* sendNotification after the await: on success the store is updated, on
\* failure the error is logged and nothing else happens.
SendFinish(m, delivered) ==
  [m EXCEPT !.sendPc = "done",
            !.log = IF delivered THEN @ ELSE Append(@, "Error sending notification:")]

Bookings ==
  {[id |-> "123", userId |-> "user123", salonName |-> "Test Salon",
    date |-> "2024-01-01"]}

----------------------------------------------------------------------------
(* Firestore (docs/3_FIREBASE_SETUP.md): the collections, the security     *)
(* rules and the documented queries.                                       *)

SalonIds == {"s1", "s2"}
BookingIds == {"b1", "b2"}
Statuses == {"pending", "confirmed", "cancelled"}
Tokens == {"t1", "t2"}

AbsentUser ==
  [exists |-> FALSE, firstName |-> "", fcmTokens |-> << >>, updatedAt |-> 0]

InitialDb ==
  [users     |-> [u \in Users |-> AbsentUser],
   favorites |-> {},
   bookings  |-> {},
   salons    |-> SalonIds,
   clock     |-> 1]

NoRequest ==
  [collection |-> "", op |-> "", auth |-> Null, docId |-> "", allowed |-> FALSE]

Procs == {"p1", "p2"}

\* A call of toggleFavorite that has not started or has returned.
IdleToggle == [pc |-> "idle", userId |-> "", salonId |-> "", snapshot |-> {}]

\* No call of updateFCMToken to speak of.
NoUpdate ==
  [userId |-> "", token |-> "", before |-> AbsentUser, once |-> << >>, times |-> 0]

\* The bookingData createBooking can be handed (Omit<Booking, 'id'>), by
\* the fields that tell bookings apart; one user books.
BookingData ==
  {[userId |-> "u1", salonId |-> s, date |-> date, timeSlot |-> t, status |-> st] :
     s \in SalonIds, date \in Dates, t \in TimeSlots, st \in Statuses}

\* A call of createBooking that has not started or has returned.
IdleCreate ==
  [pc |-> "idle",
   data |-> [userId |-> "", salonId |-> "", date |-> "", timeSlot |-> "",
             status |-> ""]]

\* No call of updateBookingStatus to speak of.
NoStatusUpdate == [bookingId |-> 0, status |-> "", before |-> {}, done |-> FALSE]

\* The callers of the database: the last request judged by the rules, the
\* calls of toggleFavorite in progress, the toggleFavorite calls completed
\* last (at most two, each with the favorites it found) and the last calls
\* of updateFCMToken.
InitialClients ==
  [lastRequest |-> NoRequest,
   toggles     |-> [p \in Procs |-> IdleToggle],
   trail       |-> << >>,
   lastUpdate  |-> NoUpdate,
   creates     |-> [p \in Procs |-> IdleCreate],
   returned    |-> << >>,
   lastStatus  |-> NoStatusUpdate]

\* function isAuthenticated() of the rules
isAuthenticated(request) == request.auth # Null

\* function isOwner(userId) of the rules (an unauthenticated request has no
\* uid: the condition fails)
isOwner(request, userId) == request.auth # Null /\ request.auth = userId

Writes == {"create", "update", "delete"}

\* match /users/{userId}
AllowUsers(request) ==
  IF request.op = "read" THEN isAuthenticated(request)
  ELSE isOwner(request, request.docId)

\* match /salons/{salonId}
AllowSalons(request) == request.op = "read"

\* The stored booking a request addresses: a set with that document, or
\* empty when there is none (a condition on resource.data then fails).
Resource(bookings, docId) == {b \in bookings : b.id = docId}

\* Booking rules whose update condition forgets the owner.
AllowBookingsAnyUpdater(request, bookings) ==
  CASE request.op = "read" ->
         /\ isAuthenticated(request)
         /\ \E resource \in Resource(bookings, request.docId) :
              resource.userId = request.auth
    [] request.op = "create" -> isAuthenticated(request)
    [] request.op = "update" ->
         /\ isAuthenticated(request)
         /\ Resource(bookings, request.docId) # {}
    [] OTHER -> FALSE

\* match /bookings/{bookingId}: read and update for the owner of the stored
\* document, create for any signed-in user, no rule for delete.
AllowBookings(request, bookings) ==
  CASE request.op = "read" ->
         /\ isAuthenticated(request)
         /\ \E resource \in Resource(bookings, request.docId) :
              resource.userId = request.auth
    [] request.op = "create" -> isAuthenticated(request)
    [] request.op = "update" ->
         /\ isAuthenticated(request)
         /\ \E resource \in Resource(bookings, request.docId) :
              resource.userId = request.auth
    [] OTHER -> FALSE

Allow(request, d) ==
  CASE request.collection = "users"    -> AllowUsers(request)
    [] request.collection = "salons"   -> AllowSalons(request)
    [] request.collection = "bookings" -> AllowBookings(request, d.bookings)
    [] OTHER -> FALSE

\* The effect of an allowed write on the collections; data is the content
\* the request carries: [userId, status] for a booking, [firstName] for a
\* user, nothing that matters for a salon.
ApplyWrite(d, request, data) ==
  CASE request.collection = "bookings" /\ request.op = "create" ->
         IF Resource(d.bookings, request.docId) # {} THEN d
         ELSE [d EXCEPT !.bookings = @ \cup
                 {[id |-> request.docId, userId |-> data.userId,
                   status |-> data.status, updatedAt |-> 0]}]
    [] request.collection = "bookings" /\ request.op = "update" ->
         [d EXCEPT !.bookings =
            {IF b.id = request.docId
               THEN [b EXCEPT !.userId = data.userId, !.status = data.status]
               ELSE b : b \in @}]
    [] request.collection = "bookings" /\ request.op = "delete" ->
         [d EXCEPT !.bookings = {b \in @ : b.id # request.docId}]
    [] request.collection = "users" /\ request.op \in {"create", "update"} ->
         [d EXCEPT !.users[request.docId] =
            [@ EXCEPT !.exists = TRUE, !.firstName = data.firstName]]
    [] request.collection = "users" /\ request.op = "delete" ->
         [d EXCEPT !.users[request.docId] = AbsentUser]
    [] request.collection = "salons" /\ request.op = "delete" ->
         [d EXCEPT !.salons = @ \ {request.docId}]
    [] request.collection = "salons" ->
         [d EXCEPT !.salons = @ \cup {request.docId}]
    [] OTHER -> d

\* A request checked against the rules and, when allowed, carried out.
Serve(d, request, data) ==
  IF Allow(request, d) /\ request.op \in Writes THEN ApplyWrite(d, request, data)
  ELSE d

DocIdsOf(collection) ==
  CASE collection = "users"    -> Users
    [] collection = "salons"   -> SalonIds
    [] collection = "bookings" -> BookingIds

\* favoriteQueries.toggleFavorite, the query: the favorite documents of the
\* pair.
FavoritesOf(favorites, userId, salonId) ==
  {f \in favorites : f.userId = userId /\ f.salonId = salonId}

\* toggleFavorite, `await ref.get()` with limit(1): the snapshot is empty
\* when the pair has no document, and holds one document of the pair
\* otherwise (the first in the order of the generated ids, that is any).
ToggleSnapshots(favorites, userId, salonId) ==
  IF FavoritesOf(favorites, userId, salonId) = {} THEN {{}}
  ELSE {{f} : f \in FavoritesOf(favorites, userId, salonId)}

\* toggleFavorite that adds a document whatever the query found.
ToggleWriteAlwaysAdds(d, userId, salonId, snapshot) ==
  [d EXCEPT !.favorites = @ \cup {[id |-> d.clock, userId |-> userId,
                                   salonId |-> salonId, createdAt |-> d.clock]},
            !.clock = @ + 1]

\* toggleFavorite after the query: add() stores a document under a fresh
\* generated id with the server time; docs[0].ref.delete() removes the
\* document found (and nothing when it is gone already).
ToggleWrite(d, userId, salonId, snapshot) ==
  IF snapshot = {}
    THEN [d EXCEPT !.favorites = @ \cup {[id |-> d.clock, userId |-> userId,
                                          salonId |-> salonId, createdAt |-> d.clock]},
                   !.clock = @ + 1]
    ELSE [d EXCEPT !.favorites = @ \ snapshot]

\* favoriteQueries.getUserFavorites: the salonId of every favorite document
\* of the user, as the number of times each salonId occurs in the array
\* returned.
getUserFavorites(favorites, userId) ==
  [s \in SalonIds |-> Cardinality(FavoritesOf(favorites, userId, s))]

\* createBooking that refuses a salon, date and time slot already booked.
createBookingChecksConflict(d, bookingData) ==
  IF \E b \in d.bookings : /\ b.salonId = bookingData.salonId
                           /\ b.date = bookingData.date
                           /\ b.timeSlot = bookingData.timeSlot
    THEN d
    ELSE [d EXCEPT !.bookings = @ \cup
            {[id |-> d.clock, userId |-> bookingData.userId,
              salonId |-> bookingData.salonId, date |-> bookingData.date,
              timeSlot |-> bookingData.timeSlot, status |-> bookingData.status,
              createdAt |-> d.clock, updatedAt |-> d.clock]},
                   !.clock = @ + 1]

\* bookingQueries.createBooking: add() stores the data under a fresh
\* generated id, createdAt and updatedAt being the server time.
createBooking(d, bookingData) ==
  [d EXCEPT !.bookings = @ \cup
       {[id |-> d.clock, userId |-> bookingData.userId,
         salonId |-> bookingData.salonId, date |-> bookingData.date,
         timeSlot |-> bookingData.timeSlot, status |-> bookingData.status,
         createdAt |-> d.clock, updatedAt |-> d.clock]},
            !.clock = @ + 1]

\* The id createBooking returns (ref.id).
CreatedId(d) == d.clock

\* updateBookingStatus that leaves a cancelled booking cancelled.
updateBookingStatusKeepsCancelled(d, bookingId, status) ==
  IF \E b \in d.bookings : b.id = bookingId
    THEN [d EXCEPT !.bookings =
            {IF b.id = bookingId /\ b.status # "cancelled"
               THEN [b EXCEPT !.status = status, !.updatedAt = d.clock]
               ELSE b : b \in @},
                   !.clock = @ + 1]
    ELSE d

\* bookingQueries.updateBookingStatus: update() sets status and updatedAt
\* of the document; update() of a document that does not exist rejects and
\* writes nothing.
updateBookingStatus(d, bookingId, status) ==
  IF \E b \in d.bookings : b.id = bookingId
    THEN [d EXCEPT !.bookings =
            {IF b.id = bookingId
               THEN [b EXCEPT !.status = status, !.updatedAt = d.clock]
               ELSE b : b \in @},
                   !.clock = @ + 1]
    ELSE d

\* firestore.FieldValue.arrayUnion(element) applied to a stored array.
arrayUnionAppends(array, element) == Append(array, element)

arrayUnion(array, element) ==
  IF element \in Range(array) THEN array ELSE Append(array, element)

FirstNames == {"Asha"}

\* The userData upsertUser can be handed (Partial<User>): `fields` are the
\* fields that are given, fcmTokens is any array of tokens when given.
UserData ==
  {[fields |-> {"firstName"}, firstName |-> n, fcmTokens |-> << >>] :
     n \in FirstNames}
  \cup
  {[fields |-> fs, firstName |-> n, fcmTokens |-> ts] :
     fs \in {{"fcmTokens"}, {"firstName", "fcmTokens"}},
     n \in FirstNames,
     ts \in UNION {[1..k -> Tokens] : k \in 0..MaxTokens}}

\* userQueries.upsertUser: set with merge, the fields given replace the
\* stored ones, updatedAt becomes the server time.
upsertUser(d, userId, userData) ==
  [d EXCEPT !.users[userId] =
       [exists    |-> TRUE,
        firstName |-> IF "firstName" \in userData.fields
                        THEN userData.firstName ELSE @.firstName,
        fcmTokens |-> IF "fcmTokens" \in userData.fields
                        THEN userData.fcmTokens ELSE @.fcmTokens,
        updatedAt |-> d.clock],
            !.clock = @ + 1]

\* userQueries.updateFCMToken: update() with arrayUnion; update() of a
\* document that does not exist rejects and writes nothing.
updateFCMToken(d, userId, token) ==
  IF d.users[userId].exists
    THEN [d EXCEPT !.users[userId].fcmTokens = arrayUnion(@, token)]
    ELSE d


----------------------------------------------------------------------------
(* Initial states: the application root shows the navigation tree or one   *)
(* of the two form screens; nothing is typed, logged or unhandled.         *)

InitialState(mounted, popToExisting) ==
  [mounted       |-> mounted,
   popToExisting |-> popToExisting,
   root          |-> [routeNames |-> [i \in DOMAIN RootStackParamList |->
                                         RootStackParamList[i].name],
                      routes     |-> [i \in DOMAIN RootStackParamList |->
                                         Route(RootStackParamList[i].name, Undefined)],
                      index      |-> 1],
   auth          |-> InitialStack(AuthNavigator),
   main          |-> InitialTabs(MainNavigator),
   mobileText    |-> << >>,
   otpText       |-> << >>,
   searchText    |-> << >>,
   log           |-> << >>,
   unhandled     |-> {}]

Mountable == {"Navigation", "MobileNumber", "OtpVarification"}

Init ==
  /\ \E m \in Mountable, v \in BOOLEAN : app = InitialState(m, v)
  /\ twin = app
  /\ store = InitialStore
  /\ manager = InitialManager
  /\ db = InitialDb
  /\ clients = InitialClients

----------------------------------------------------------------------------
(* Actions of one run (the second record is left alone) *)

PressTab ==
  \E i \in DOMAIN app.main.routes :
    /\ InMain(app)
    /\ app' = TabPress(app, i)
    /\ UNCHANGED <<twin, backend>>

NavigateMain ==
  \E name \in RouteNamesOf(MainTabParamList) :
    \E params \in ParamValues(TypeOf(MainTabParamList, name)) :
      /\ InMain(app)
      /\ app' = TabNavigate(app, name, params)
      /\ UNCHANGED <<twin, backend>>

PushAuth ==
  \E name \in RouteNamesOf(AuthStackParamList) :
    \E params \in ParamValues(TypeOf(AuthStackParamList, name)) :
      /\ InAuth(app)
      /\ Len(app.auth.routes) < MaxStack
      /\ app' = StackPush(app, name, params)
      /\ UNCHANGED <<twin, backend>>

PopAuth ==
  /\ InAuth(app)
  /\ Len(app.auth.routes) > 1
  /\ app' = StackPop(app)
  /\ UNCHANGED <<twin, backend>>

NavigateRoot ==
  \E name \in RouteNamesOf(RootStackParamList) :
    \E params \in ParamValues(TypeOf(RootStackParamList, name)) :
      /\ app.mounted = "Navigation"
      /\ Len(app.auth.routes) < MaxStack
      /\ app' = RootNavigate(app, name, params)
      /\ UNCHANGED <<twin, backend>>

TypeSearch ==
  \E key \in Letters :
    /\ OnDashboard(app)
    /\ Len(app.searchText) < MaxSearch
    /\ app' = DashboardSearchType(app, key)
    /\ UNCHANGED <<twin, backend>>

EraseSearch ==
  /\ OnDashboard(app)
  /\ app' = [app EXCEPT !.searchText = Backspace(@)]
  /\ UNCHANGED <<twin, backend>>

PressDashboard ==
  \E button \in {SalonCards[n].button : n \in DOMAIN SalonCards} :
    /\ OnDashboard(app)
    /\ app' = DashboardPress(app, button)
    /\ UNCHANGED <<twin, backend>>

TypeMobile ==
  \E key \in Digits :
    /\ app.mounted = "MobileNumber"
    /\ app' = MobileNumberType(app, key)
    /\ UNCHANGED <<twin, backend>>

EraseMobile ==
  /\ app.mounted = "MobileNumber"
  /\ app' = [app EXCEPT !.mobileText = Backspace(@)]
  /\ UNCHANGED <<twin, backend>>

PressMobileContinue ==
  /\ app.mounted = "MobileNumber"
  /\ Len(app.log) < MaxLog
  /\ app' = MobileNumberContinue(app)
  /\ UNCHANGED <<twin, backend>>

TypeOtp ==
  \E key \in Digits :
    /\ app.mounted = "OtpVarification"
    /\ app' = OtpVarificationType(app, key)
    /\ UNCHANGED <<twin, backend>>

EraseOtp ==
  /\ app.mounted = "OtpVarification"
  /\ app' = [app EXCEPT !.otpText = Backspace(@)]
  /\ UNCHANGED <<twin, backend>>

PressOtpContinue ==
  /\ app.mounted = "OtpVarification"
  /\ Len(app.log) < MaxLog
  /\ app' = OtpVarificationContinue(app)
  /\ UNCHANGED <<twin, backend>>

Next ==
  \/ PressTab
  \/ NavigateMain
  \/ PushAuth
  \/ PopAuth
  \/ NavigateRoot
  \/ TypeSearch
  \/ EraseSearch
  \/ PressDashboard
  \/ TypeMobile
  \/ EraseMobile
  \/ PressMobileContinue
  \/ TypeOtp
  \/ EraseOtp
  \/ PressOtpContinue

Spec == Init /\ [][Next]_vars

----------------------------------------------------------------------------
(* Two runs side by side: both perform the same navigations and button     *)
(* presses; what is typed into the inputs is chosen for each run apart.    *)

Both(Handler(_)) ==
  app' = Handler(app) /\ twin' = Handler(twin) /\ UNCHANGED backend

PairPressTab ==
  \E i \in DOMAIN app.main.routes :
    /\ InMain(app) /\ InMain(twin)
    /\ Both(LAMBDA s : TabPress(s, i))

PairNavigateMain ==
  \E name \in RouteNamesOf(MainTabParamList) :
    \E params \in ParamValues(TypeOf(MainTabParamList, name)) :
      /\ InMain(app) /\ InMain(twin)
      /\ Both(LAMBDA s : TabNavigate(s, name, params))

PairPushAuth ==
  \E name \in RouteNamesOf(AuthStackParamList) :
    \E params \in ParamValues(TypeOf(AuthStackParamList, name)) :
      /\ InAuth(app) /\ InAuth(twin)
      /\ Len(app.auth.routes) < MaxStack /\ Len(twin.auth.routes) < MaxStack
      /\ Both(LAMBDA s : StackPush(s, name, params))

PairPopAuth ==
  /\ InAuth(app) /\ InAuth(twin)
  /\ Len(app.auth.routes) > 1 /\ Len(twin.auth.routes) > 1
  /\ Both(StackPop)

PairNavigateRoot ==
  \E name \in RouteNamesOf(RootStackParamList) :
    \E params \in ParamValues(TypeOf(RootStackParamList, name)) :
      /\ app.mounted = "Navigation" /\ twin.mounted = "Navigation"
      /\ Len(app.auth.routes) < MaxStack /\ Len(twin.auth.routes) < MaxStack
      /\ Both(LAMBDA s : RootNavigate(s, name, params))

PairPressDashboard ==
  \E button \in {SalonCards[n].button : n \in DOMAIN SalonCards} :
    /\ OnDashboard(app) /\ OnDashboard(twin)
    /\ Both(LAMBDA s : DashboardPress(s, button))

PairPressMobileContinue ==
  /\ app.mounted = "MobileNumber" /\ twin.mounted = "MobileNumber"
  /\ Len(app.log) < MaxLog /\ Len(twin.log) < MaxLog
  /\ Both(MobileNumberContinue)

PairPressOtpContinue ==
  /\ app.mounted = "OtpVarification" /\ twin.mounted = "OtpVarification"
  /\ Len(app.log) < MaxLog /\ Len(twin.log) < MaxLog
  /\ Both(OtpVarificationContinue)

\* One of the two runs types a key into the input in front of it.
TypeApart ==
  \E first \in BOOLEAN :
    LET s == IF first THEN app ELSE twin
        typed(t) == /\ IF first THEN app' = t ELSE twin' = t
                    /\ IF first THEN UNCHANGED <<twin, backend>> ELSE UNCHANGED <<app, backend>>
    IN  \/ \E key \in Letters :
             /\ OnDashboard(s) /\ Len(s.searchText) < MaxTyped
             /\ typed(DashboardSearchType(s, key))
        \/ \E key \in Digits :
             /\ s.mounted = "MobileNumber" /\ Len(s.mobileText) < MaxTyped
             /\ typed(MobileNumberType(s, key))
        \/ \E key \in Digits :
             /\ s.mounted = "OtpVarification" /\ Len(s.otpText) < MaxTyped
             /\ typed(OtpVarificationType(s, key))

NextNI ==
  \/ PairPressTab
  \/ PairNavigateMain
  \/ PairPushAuth
  \/ PairPopAuth
  \/ PairNavigateRoot
  \/ PairPressDashboard
  \/ PairPressMobileContinue
  \/ PairPressOtpContinue
  \/ TypeApart

SpecNI == Init /\ [][NextNI]_vars

\* What a run shows apart from the contents of its inputs: the routes, the
\* console, the unhandled actions and the text every component renders.
Components ==
  {AuthNavigator[i].component : i \in DOMAIN AuthNavigator}
    \cup {MainNavigator[i].component : i \in DOMAIN MainNavigator}
    \cup {"MobileNumber", "OtpVarification"}

LowView(s) ==
  [mounted   |-> s.mounted,
   root      |-> s.root,
   auth      |-> s.auth,
   main      |-> s.main,
   log       |-> s.log,
   unhandled |-> s.unhandled,
   rendered  |-> [c \in Components |-> Render(c, s)]]

----------------------------------------------------------------------------
(* The state layer in use: actions are dispatched to the auth reducer and  *)
(* the booking store's functions are called.  The reducer starts from the  *)
(* undefined state, as at the creation of the store.                       *)

InitStore ==
  /\ app = InitialState("Navigation", FALSE)
  /\ twin = app
  /\ store = [InitialStore EXCEPT !.auth = UndefinedState]
  /\ manager = InitialManager
  /\ db = InitialDb
  /\ clients = InitialClients

\* The store after store.dispatch(action).
Dispatch(action, op) ==
  [store EXCEPT !.auth = authReducer(@, action), !.lastOp = op]

DispatchSetUser ==
  \E u \in Users :
    /\ store' = Dispatch([type |-> "auth/setUser", payload |-> u], Op("setUser", u))
    /\ UNCHANGED <<app, twin, manager, db, clients>>

DispatchSetLoading ==
  \E b \in BOOLEAN :
    /\ store' = Dispatch([type |-> "auth/setLoading", payload |-> b],
                         Op("setLoading", IF b THEN "true" ELSE "false"))
    /\ UNCHANGED <<app, twin, manager, db, clients>>

DispatchSetError ==
  \E e \in Errors :
    /\ store' = Dispatch([type |-> "auth/setError", payload |-> e], Op("setError", e))
    /\ UNCHANGED <<app, twin, manager, db, clients>>

DispatchLogout ==
  /\ store' = Dispatch([type |-> "auth/logout"], Op("logout", ""))
  /\ UNCHANGED <<app, twin, manager, db, clients>>

DispatchUnknown ==
  \E t \in UnknownTypes :
    /\ store' = Dispatch([type |-> t], Op("unknown", t))
    /\ UNCHANGED <<app, twin, manager, db, clients>>

\* The store after a function of the booking store has set its state.
CallBooking(next, op) == [store EXCEPT !.booking = next, !.lastOp = op]

CallAddService ==
  \E service \in Services :
    /\ Len(store.booking.selectedServices) < MaxServices
    /\ store' = CallBooking(addService(store.booking, service),
                            Op("addService", service.id))
    /\ UNCHANGED <<app, twin, manager, db, clients>>

CallRemoveService ==
  \E service \in Services :
    /\ store' = CallBooking(removeService(store.booking, service.id),
                            Op("removeService", service.id))
    /\ UNCHANGED <<app, twin, manager, db, clients>>

CallSetDate ==
  \E date \in Dates :
    /\ store' = CallBooking(setDate(store.booking, date), Op("setDate", date))
    /\ UNCHANGED <<app, twin, manager, db, clients>>

CallSetTimeSlot ==
  \E time \in TimeSlots :
    /\ store' = CallBooking(setTimeSlot(store.booking, time), Op("setTimeSlot", time))
    /\ UNCHANGED <<app, twin, manager, db, clients>>

CallClearBooking ==
  /\ store' = CallBooking(clearBooking(store.booking), Op("clearBooking", ""))
  /\ UNCHANGED <<app, twin, manager, db, clients>>

NextStore ==
  \/ DispatchSetUser
  \/ DispatchSetLoading
  \/ DispatchSetError
  \/ DispatchLogout
  \/ DispatchUnknown
  \/ CallAddService
  \/ CallRemoveService
  \/ CallSetDate
  \/ CallSetTimeSlot
  \/ CallClearBooking

SpecStore == InitStore /\ [][NextStore]_vars

----------------------------------------------------------------------------
(* The NotificationManager at work, with a user signed in or not *)

InitNotif ==
  /\ app = InitialState("Navigation", FALSE)
  /\ twin = app
  /\ \E user \in Users \cup {Null} :
       store = [InitialStore EXCEPT !.auth.user = user]
  /\ manager = InitialManager
  /\ db = InitialDb
  /\ clients = InitialClients

RequestPermission ==
  /\ manager.pc = "idle"
  /\ \/ \E authStatus \in AuthorizationStatus :
          manager' = InitializePermission(manager, authStatus)
     \/ manager' = InitializePermissionRejected(manager)
  /\ UNCHANGED <<app, twin, store, db, clients>>

FetchToken ==
  /\ manager.pc = "permission"
  /\ manager.hasPermission = "granted"
  /\ \E outcome \in GetTokenOutcomes : manager' = InitializeToken(manager, outcome)
  /\ UNCHANGED <<app, twin, store, db, clients>>

SaveToken ==
  /\ manager.pc = "token"
  /\ manager.token # Null
  /\ \E saved \in BOOLEAN : manager' = InitializeSave(manager, store.auth.user, saved)
  /\ UNCHANGED <<app, twin, store, db, clients>>

SetUpLocal ==
  /\ ReadyForLocal(manager)
  /\ manager' = InitializeLocal(manager)
  /\ UNCHANGED <<app, twin, store, db, clients>>

SendBookingConfirmation ==
  \E booking \in Bookings :
    /\ manager.sendPc \in {"idle", "done"}
    /\ manager.sends < MaxSends
    /\ manager' = SendStart(manager, booking)
    /\ UNCHANGED <<app, twin, store, db, clients>>

SendCloudNotification ==
  \E delivered \in BOOLEAN :
    /\ manager.sendPc = "sending"
    /\ manager' = SendFinish(manager, delivered)
    /\ store' = IF delivered
                  THEN [store EXCEPT !.notifications =
                          updateNotificationStatus(@, SentEntry(manager)),
                        !.lastOp = Op("updateNotificationStatus", "sent")]
                  ELSE store
    /\ UNCHANGED <<app, twin, db, clients>>

NextNotif ==
  \/ RequestPermission
  \/ FetchToken
  \/ SaveToken
  \/ SetUpLocal
  \/ SendBookingConfirmation
  \/ SendCloudNotification

SpecNotif == InitNotif /\ [][NextNotif]_vars

----------------------------------------------------------------------------
(* Clients, signed in or not, sending requests to Firestore under the      *)
(* security rules                                                          *)

InitRules ==
  /\ app = InitialState("Navigation", FALSE)
  /\ twin = app
  /\ store = InitialStore
  /\ manager = InitialManager
  /\ db = InitialDb
  /\ clients = InitialClients

Request(collection, op, auth, docId) ==
  [collection |-> collection, op |-> op, auth |-> auth, docId |-> docId,
   allowed |-> FALSE]

\* The request with the verdict of the rules on the stored data.
Send(request) == [request EXCEPT !.allowed = Allow(request, db)]

NoData == [userId |-> Null, status |-> "", firstName |-> ""]

RequestRead ==
  \E collection \in {"users", "salons", "bookings"}, auth \in Users \cup {Null} :
    \E docId \in DocIdsOf(collection) :
      LET request == Request(collection, "read", auth, docId)
      IN  /\ db' = Serve(db, request, NoData)
          /\ clients' = [clients EXCEPT !.lastRequest = Send(request)]
          /\ UNCHANGED <<app, twin, store, manager>>

RequestBookingWrite ==
  \E op \in Writes, auth \in Users \cup {Null}, docId \in BookingIds :
    \E userId \in Users, status \in {"pending", "confirmed"} :
      LET request == Request("bookings", op, auth, docId)
      IN  /\ db' = Serve(db, request,
                         [NoData EXCEPT !.userId = userId, !.status = status])
          /\ clients' = [clients EXCEPT !.lastRequest = Send(request)]
          /\ UNCHANGED <<app, twin, store, manager>>

RequestUserWrite ==
  \E op \in Writes, auth \in Users \cup {Null}, docId \in Users :
    LET request == Request("users", op, auth, docId)
    IN  /\ db' = Serve(db, request, [NoData EXCEPT !.firstName = "Asha"])
        /\ clients' = [clients EXCEPT !.lastRequest = Send(request)]
        /\ UNCHANGED <<app, twin, store, manager>>

RequestSalonWrite ==
  \E op \in Writes, auth \in Users \cup {Null}, docId \in SalonIds :
    LET request == Request("salons", op, auth, docId)
    IN  /\ db' = Serve(db, request, NoData)
        /\ clients' = [clients EXCEPT !.lastRequest = Send(request)]
        /\ UNCHANGED <<app, twin, store, manager>>

NextRules ==
  \/ RequestRead
  \/ RequestBookingWrite
  \/ RequestUserWrite
  \/ RequestSalonWrite

SpecRules == InitRules /\ [][NextRules]_vars

----------------------------------------------------------------------------
(* favoriteQueries called one call after the other                          *)

\* The favorites two interleaved toggleFavorite calls of one pair leave.
RacedFavorites ==
  {[id |-> 1, userId |-> "u1", salonId |-> "s1", createdAt |-> 1],
   [id |-> 2, userId |-> "u1", salonId |-> "s1", createdAt |-> 2]}

InitFavSeq ==
  /\ app = InitialState("Navigation", FALSE)
  /\ twin = app
  /\ store = InitialStore
  /\ manager = InitialManager
  /\ db \in {InitialDb, [InitialDb EXCEPT !.favorites = RacedFavorites, !.clock = 3]}
  /\ clients = InitialClients

\* The last two calls, the newest last.
Trail(trail, call) ==
  IF Len(trail) < 2 THEN Append(trail, call) ELSE << trail[2], call >>

\* toggleFavorite(userId, salonId) from the call to the return.
ToggleFavorite ==
  \E userId \in Users, salonId \in SalonIds :
    \E snapshot \in ToggleSnapshots(db.favorites, userId, salonId) :
      /\ db.clock <= MaxClock
      /\ db' = ToggleWrite(db, userId, salonId, snapshot)
      /\ clients' = [clients EXCEPT !.trail =
                       Trail(@, [userId |-> userId, salonId |-> salonId,
                                 before |-> db.favorites])]
      /\ UNCHANGED <<app, twin, store, manager>>

NextFavSeq == ToggleFavorite

SpecFavSeq == InitFavSeq /\ [][NextFavSeq]_vars

----------------------------------------------------------------------------
(* favoriteQueries called concurrently: each call is a query followed,     *)
(* after the await, by an add or a delete                                   *)

InitFav ==
  /\ app = InitialState("Navigation", FALSE)
  /\ twin = app
  /\ store = InitialStore
  /\ manager = InitialManager
  /\ db = InitialDb
  /\ clients = InitialClients

Querying == {p \in Procs : clients.toggles[p].pc = "queried"}

\* toggleFavorite up to the result of `await ref.get()`.
ToggleQuery ==
  \E p \in Procs, userId \in Users, salonId \in SalonIds :
    \E snapshot \in ToggleSnapshots(db.favorites, userId, salonId) :
      /\ clients.toggles[p].pc = "idle"
      /\ db.clock + Cardinality(Querying) <= MaxClock
      /\ clients' = [clients EXCEPT !.toggles[p] =
                       [pc |-> "queried", userId |-> userId, salonId |-> salonId,
                        snapshot |-> snapshot]]
      /\ UNCHANGED <<app, twin, store, manager, db>>

\* toggleFavorite from the result of the query to the return.
ToggleFinish ==
  \E p \in Querying :
    LET call == clients.toggles[p]
    IN  /\ db' = ToggleWrite(db, call.userId, call.salonId, call.snapshot)
        /\ clients' = [clients EXCEPT !.toggles[p] = IdleToggle]
        /\ UNCHANGED <<app, twin, store, manager>>

NextFav ==
  \/ ToggleQuery
  \/ ToggleFinish

SpecFav == InitFav /\ [][NextFav]_vars

----------------------------------------------------------------------------
(* userQueries: upsertUser and updateFCMToken on the users collection       *)

InitUsers ==
  /\ app = InitialState("Navigation", FALSE)
  /\ twin = app
  /\ store = InitialStore
  /\ manager = InitialManager
  /\ db = InitialDb
  /\ clients = InitialClients

UpsertUser ==
  \E userId \in Users, userData \in UserData :
    /\ db.clock <= MaxClock
    /\ db' = upsertUser(db, userId, userData)
    /\ clients' = [clients EXCEPT !.lastUpdate = NoUpdate]
    /\ UNCHANGED <<app, twin, store, manager>>

\* updateFCMToken(userId, token); the calls made in a row with the same
\* arguments are counted (up to two), with the document before the first
\* of them and the tokens after it.
UpdateFCMToken ==
  \E userId \in Users, token \in Tokens :
    LET last == clients.lastUpdate
        again == last.times > 0 /\ last.userId = userId /\ last.token = token
        after == updateFCMToken(db, userId, token)
    IN  /\ db' = after
        /\ clients' = [clients EXCEPT !.lastUpdate =
             IF ~db.users[userId].exists THEN NoUpdate
             ELSE IF again THEN [last EXCEPT !.times = 2]
             ELSE [userId |-> userId, token |-> token, before |-> db.users[userId],
                   once |-> after.users[userId].fcmTokens, times |-> 1]]
        /\ UNCHANGED <<app, twin, store, manager>>

NextUsers ==
  \/ UpsertUser
  \/ UpdateFCMToken

SpecUsers == InitUsers /\ [][NextUsers]_vars

----------------------------------------------------------------------------
(* bookingQueries: createBooking called concurrently (each call is a       *)
(* request on its way, then the add at the server) and updateBookingStatus *)

InitBookings ==
  /\ app = InitialState("Navigation", FALSE)
  /\ twin = app
  /\ store = InitialStore
  /\ manager = InitialManager
  /\ db = InitialDb
  /\ clients = InitialClients

Creating == {p \in Procs : clients.creates[p].pc = "adding"}

\* createBooking(bookingData) up to the request of db.bookings.add().
CreateStart ==
  \E p \in Procs, bookingData \in BookingData :
    /\ clients.creates[p].pc = "idle"
    /\ db.clock + Cardinality(Creating) <= MaxClock
    /\ clients' = [clients EXCEPT !.creates[p] =
                     [pc |-> "adding", data |-> bookingData]]
    /\ UNCHANGED <<app, twin, store, manager, db>>

\* createBooking from the add at the server to the return of ref.id; the
\* calls that returned are kept with their data, the id returned and
\* whether another call was on its way.
CreateFinish ==
  \E p \in Creating :
    LET call == clients.creates[p]
    IN  /\ db' = createBooking(db, call.data)
        /\ clients' = [clients EXCEPT
                         !.creates[p] = IdleCreate,
                         !.returned = Append(@, [id |-> CreatedId(db),
                                                 data |-> call.data,
                                                 overlapped |-> Creating # {p}]),
                         !.lastStatus = NoStatusUpdate]
        /\ UNCHANGED <<app, twin, store, manager>>

\* updateBookingStatus(bookingId, status), with the bookings it found.
UpdateBookingStatus ==
  \E bookingId \in 1..MaxClock, status \in Statuses :
    /\ db.clock + Cardinality(Creating) <= MaxClock
    /\ db' = updateBookingStatus(db, bookingId, status)
    /\ clients' = [clients EXCEPT !.lastStatus =
                     [bookingId |-> bookingId, status |-> status,
                      before |-> db.bookings,
                      done |-> \E b \in db.bookings : b.id = bookingId]]
    /\ UNCHANGED <<app, twin, store, manager>>

NextBookings ==
  \/ CreateStart
  \/ CreateFinish
  \/ UpdateBookingStatus

SpecBookings == InitBookings /\ [][NextBookings]_vars

----------------------------------------------------------------------------
(* Properties *)

Placeholders ==
  {"LoginScreen", "RegisterScreen", "ForgotPasswordScreen",
   "BookingsScreen", "ProfileScreen"}

\* C1: MainNavigator registers exactly Home, Bookings and Profile, in that
\* order; Home shows the Dashboard, Bookings and Profile show a placeholder
\* whose only text is '<name> Screen'; whatever tabs were selected, the
\* focused tab is one of the three.
C1_MainNavigatorThreeTabs ==
  /\ app.main.routeNames = << "Home", "Bookings", "Profile" >>
  /\ [i \in DOMAIN app.main.routes |-> app.main.routes[i].name] = app.main.routeNames
  /\ ComponentOf(MainNavigator, "Home") = "Dashboard"
  /\ \A name \in {"Bookings", "Profile"} :
       /\ ComponentOf(MainNavigator, name) \in Placeholders
       /\ Render(ComponentOf(MainNavigator, name), app) = << name \o " Screen" >>
  /\ FocusedRoute(app.main).name \in {"Home", "Bookings", "Profile"}
  /\ InMain(app) =>
       FocusedComponent(app) \in {"Dashboard", "BookingsScreen", "ProfileScreen"}

C1_Witness ==
  /\ InMain(app)
  /\ FocusedRoute(app.main).name = "Profile"
  /\ Screen(app) = << "Profile Screen" >>

\* C2: AuthNavigator registers exactly Login, Register and ForgotPassword,
\* each wired to a placeholder rendering one static text; after any pushes
\* and pops every route of the stack, the top included, is one of the three
\* and shows its placeholder.
C2_AuthNavigatorThreePlaceholders ==
  /\ app.auth.routeNames = << "Login", "Register", "ForgotPassword" >>
  /\ Render(ComponentOf(AuthNavigator, "Login"), app) = << "Login Screen" >>
  /\ Render(ComponentOf(AuthNavigator, "Register"), app) = << "Register Screen" >>
  /\ Render(ComponentOf(AuthNavigator, "ForgotPassword"), app)
       = << "Forgot Password Screen" >>
  /\ app.auth.index = Len(app.auth.routes)
  /\ \A i \in DOMAIN app.auth.routes :
       ComponentOf(AuthNavigator, app.auth.routes[i].name) \in Placeholders
  /\ InAuth(app) => FocusedComponent(app) \in Placeholders

C2_Witness ==
  /\ InAuth(app)
  /\ Len(app.auth.routes) >= 3
  /\ app.auth.routes[2].name = "Register"
  /\ Screen(app) = << "Forgot Password Screen" >>

\* C3: every route name declared in AuthStackParamList is registered by
\* AuthNavigator and every route name declared in MainTabParamList is
\* registered by MainNavigator, so navigating to it shows a screen.
C3_EveryDeclaredRouteRegistered ==
  /\ \A name \in RouteNamesOf(AuthStackParamList) :
       /\ name \in Range(app.auth.routeNames)
       /\ Render(ComponentOf(AuthNavigator, name), app) # << >>
  /\ \A name \in RouteNamesOf(MainTabParamList) :
       /\ name \in Range(app.main.routeNames)
       /\ Render(ComponentOf(MainNavigator, name), app) # << >>

AllRoutes(s) ==
  {s.root.routes[i] : i \in DOMAIN s.root.routes}
    \cup {s.auth.routes[i] : i \in DOMAIN s.auth.routes}
    \cup {s.main.routes[i] : i \in DOMAIN s.main.routes}

\* C4 (as stated): every declared route has parameter type undefined: no
\* route of the navigation state (root, auth stack, main tabs) ever carries
\* parameters.
C4_AllParamsUndefined ==
  \A route \in AllRoutes(app) : route.params = Undefined

\* C4 (amended): the routes of AuthStackParamList and MainTabParamList have
\* parameter type undefined and the routes of the auth stack and of the main
\* tabs never carry parameters; the Auth and Main routes of the root carry
\* nothing or the name of a declared screen of their nested navigator.
C4_LeafParamsUndefined ==
  /\ \A list \in {AuthStackParamList, MainTabParamList} :
       \A i \in DOMAIN list : list[i].type = "undefined"
  /\ \A i \in DOMAIN app.auth.routes : app.auth.routes[i].params = Undefined
  /\ \A i \in DOMAIN app.main.routes : app.main.routes[i].params = Undefined
  /\ \A i \in DOMAIN app.root.routes :
       LET route == app.root.routes[i]
       IN  \/ route.params = Undefined
           \/ /\ route.params.type = "NavigatorScreenParams"
              /\ route.params.inner = "undefined"
              /\ route.params.screen \in
                   RouteNamesOf(IF route.name = "Auth" THEN AuthStackParamList
                                ELSE MainTabParamList)

C4_Witness ==
  /\ app.root.routes[1].params.screen = "Register"
  /\ app.root.routes[2].params.screen = "Profile"
  /\ Len(app.auth.routes) >= 2
  /\ FocusedRoute(app.main).name = "Profile"

TwoSalons == << "Beauty Salon", "Glamour Studio" >>

\* C5: the Dashboard shows exactly 'Beauty Salon' and 'Glamour Studio', in
\* that order, before and after every step; a step that changes the search
\* text changes neither the list nor any route, and so do the presses of
\* View and Book Now (which change nothing at all).
C5_DashboardTwoSalons ==
  [][ /\ Dashboard(app) = TwoSalons
      /\ Dashboard(app') = TwoSalons
      /\ app'.searchText # app.searchText =>
           /\ OnDashboard(app) /\ OnDashboard(app')
           /\ app' = [app EXCEPT !.searchText = app'.searchText]
      /\ \A button \in {"View", "Book Now"} :
           /\ DashboardPress(app, button) = app
           /\ Render("Dashboard", DashboardPress(app, button)) = Render("Dashboard", app)
    ]_vars

C5_Witness ==
  /\ OnDashboard(app)
  /\ Len(app.searchText) >= 2
  /\ Screen(app) = << "Good Morning, Rahul!", "NEARBY SALONS" >> \o TwoSalons

\* C6: on MobileNumber and OtpVarification a press of Continue appends the
\* one line 'Continue' to the console and changes nothing else (no input,
\* no route, nothing unhandled), whatever text the input holds; nothing
\* but a press on one of the two forms writes to the console.
C6_ContinueOnlyLogs ==
  [][ app'.log # app.log =>
        /\ app.mounted \in {"MobileNumber", "OtpVarification"}
        /\ app'.log = Append(app.log, "Continue")
        /\ app' = [app EXCEPT !.log = app'.log]
    ]_vars

C6_Witness ==
  /\ app.mounted = "OtpVarification"
  /\ Len(app.otpText) = OtpMaxLength
  /\ Len(app.log) >= 2

\* C7: no operation fails: no navigation action is left unhandled and the
\* screen in front always renders something.
C7_NoOperationFails ==
  /\ app.unhandled = {}
  /\ Screen(app) # << >>

\* C8: two runs that perform the same navigations and presses and type
\* different texts agree on everything but the contents of their inputs:
\* routes, console, unhandled actions and the text each component renders.
C8_NoDataFlow == LowView(app) = LowView(twin)

C8_Witness ==
  /\ app.mounted = "MobileNumber"
  /\ app.mobileText = << >>
  /\ twin.mobileText # << >>
  /\ Len(app.log) >= 1

\* C9: pressing Continue on the MobileNumber screen brings up the
\* OtpVarification screen.
C9_ContinueShowsOtp ==
  [][ (app.mounted = "MobileNumber" /\ app'.log # app.log) =>
        app'.mounted = "OtpVarification" ]_vars

\* The tabs of the documented main dashboard.
DocumentedTabs == {"Home", "Favourites", "Bookings", "Profile"}

\* C10: the tab bar offers Home, Favourites, Bookings and Profile, and a
\* press on the tab bar focuses any of the four from any tab.
C10_FourTabsReachable ==
  \A tab \in DocumentedTabs :
    \E i \in DOMAIN app.main.routes :
      FocusedRoute(TabPress(app, i).main).name = tab

\* C11: whatever keys were pressed, the mobile-number input holds at most
\* 10 characters and the OTP input at most 6, and a key pressed in a full
\* input leaves it as it is.
C11_InputsWithinMaxLength ==
  /\ Len(app.mobileText) <= 10
  /\ Len(app.otpText) <= 6
  /\ \A key \in Digits :
       /\ Len(app.mobileText) = 10 => MobileNumberType(app, key) = app
       /\ Len(app.otpText) = 6 => OtpVarificationType(app, key) = app

C11_Witness ==
  /\ app.mounted = "MobileNumber"
  /\ Len(app.mobileText) = 10
  /\ app.mobileText[10] = "2"

\* The auth state a reducer call starts from.
Current(state) == IF state = UndefinedState THEN authInitialState ELSE state

\* C12: an action of a type the auth slice does not know leaves the auth
\* state as it was; applied to the undefined state it yields the initial
\* state {user: null, loading: false, error: null}.
C12_UnknownActionKeepsState ==
  [][ store'.lastOp.kind = "unknown" =>
        /\ store'.auth = Current(store.auth)
        /\ store.auth = UndefinedState =>
             store'.auth = [user |-> Null, loading |-> FALSE, error |-> Null]
    ]_vars

C12_Witness ==
  /\ store.lastOp.kind = "unknown"
  /\ store.auth # UndefinedState
  /\ store.auth.user \in Users
  /\ store.auth.loading
  /\ store.auth.error \in Errors

\* C13: after setUser(u) the user is u, the error is null and the loading
\* flag is what it was before.
C13_SetUser ==
  [][ store'.lastOp.kind = "setUser" =>
        /\ store'.auth.user = store'.lastOp.arg
        /\ store'.auth.error = Null
        /\ store'.auth.loading = Current(store.auth).loading
    ]_vars

C13_Witness ==
  /\ store.lastOp = Op("setUser", "u2")
  /\ store.auth = [user |-> "u2", loading |-> TRUE, error |-> Null]

\* C14: after addService(s) the selected services are the previous ones
\* with s appended at the end (so s is among them), and the selected date
\* and time slot are what they were.
C14_AddServiceAppends ==
  [][ store'.lastOp.kind = "addService" =>
        \E s \in Services :
          /\ s.id = store'.lastOp.arg
          /\ store'.booking.selectedServices = Append(store.booking.selectedServices, s)
          /\ s \in Range(store'.booking.selectedServices)
          /\ store'.booking.selectedDate = store.booking.selectedDate
          /\ store'.booking.selectedTimeSlot = store.booking.selectedTimeSlot
    ]_vars

C14_Witness ==
  /\ store.lastOp.kind = "addService"
  /\ Len(store.booking.selectedServices) >= 2
  /\ store.booking.selectedServices[1] = store.booking.selectedServices[2]
  /\ store.booking.selectedDate # Null

Called(name) == name \in Range(manager.calls)

LocalSetUp == << "configure", "createChannel", "registerNotificationHandlers" >>

\* C15: initialize() requests permission before anything else; it fetches
\* the token exactly when permission was granted; it saves the token only
\* when there is a token and a signed-in user; and once it is over, with
\* permission granted or denied, it has configured the local
\* notifications, created the channel and registered the handlers.
C15_InitializeSequence ==
  /\ manager.calls # << >> => manager.calls[1] = "requestUserPermission"
  /\ manager.pc \in {"token", "saved", "done", "rejected"} =>
       (Called("getFCMToken") <=> manager.hasPermission = "granted")
  /\ Called("getFCMToken") => manager.hasPermission = "granted"
  /\ Called("updateUserFCMToken") => manager.token # Null /\ store.auth.user # Null
  /\ (manager.pc \in {"done", "rejected"} /\ manager.hasPermission # "unknown") =>
       /\ Len(manager.calls) >= 3
       /\ SubSeq(manager.calls, Len(manager.calls) - 2, Len(manager.calls)) = LocalSetUp

\* C16: once sendBookingConfirmation has completed, the notification list
\* of the store is not empty and its first entry has status 'sent'.
C16_FirstNotificationSent ==
  manager.sendPc = "done" =>
    /\ store.notifications # << >>
    /\ store.notifications[1].status = "sent"

\* C17: under the security rules an allowed read or update of a booking
\* comes from a signed-in requester whose uid is the userId stored in that
\* booking; a user document is changed only by the requester whose uid is
\* the document's id; the salons are never changed.
C17_RulesProtectOwners ==
  [][ LET request == clients'.lastRequest
      IN  /\ (request.allowed /\ request.collection = "bookings"
                /\ request.op \in {"read", "update"}) =>
                /\ request.auth # Null
                /\ \E b \in db.bookings :
                     b.id = request.docId /\ b.userId = request.auth
          /\ \A b \in db.bookings :
               (\E c \in db'.bookings : c.id = b.id /\ c # b) =>
                  b.userId = request.auth
          /\ \A u \in Users :
               db'.users[u] # db.users[u] => request.auth = u
          /\ (request.allowed /\ request.collection = "users"
                /\ request.op \in Writes) => request.auth = request.docId
          /\ db'.salons = db.salons
          /\ ~ (request.allowed /\ request.collection = "salons"
                  /\ request.op \in Writes)
    ]_vars

C17_Witness ==
  /\ clients.lastRequest.allowed
  /\ clients.lastRequest.collection = "bookings"
  /\ clients.lastRequest.op = "update"
  /\ clients.lastRequest.auth = "u2"
  /\ \E b \in db.bookings : b.id = clients.lastRequest.docId /\ b.userId = "u1"
  /\ db.users["u1"].exists

AtMostOnePerPair(favorites) ==
  \A u \in Users, s \in SalonIds : Cardinality(FavoritesOf(favorites, u, s)) <= 1

\* The set of salons getUserFavorites returns.
Returned(favorites, userId) ==
  {s \in SalonIds : getUserFavorites(favorites, userId)[s] > 0}

\* The favorites as the i-th call of the trail left them.
LeftBy(i) ==
  IF i = Len(clients.trail) THEN db.favorites ELSE clients.trail[i + 1].before

C19_AtMostOneFavoritePerPair ==
  /\ AtMostOnePerPair(db.favorites)
  /\ \A u \in Users, s \in SalonIds : getUserFavorites(db.favorites, u)[s] <= 1

Count(array, element) == Cardinality({i \in DOMAIN array : array[i] = element})

\* The part of C20 that holds whatever was stored before: after
\* updateFCMToken(userId, t) on an existing document, a second call has
\* changed nothing, the tokens stored before are still there, in their
\* places, the other fields are as they were, and t is among the tokens.
UpdateKeeps(last, doc) ==
  /\ last.times = 2 => doc.fcmTokens = last.once
  /\ Len(doc.fcmTokens) >= Len(last.before.fcmTokens)
  /\ SubSeq(doc.fcmTokens, 1, Len(last.before.fcmTokens)) = last.before.fcmTokens
  /\ [doc EXCEPT !.fcmTokens = << >>] = [last.before EXCEPT !.fcmTokens = << >>]
  /\ last.token \in Range(doc.fcmTokens)

\* C20: after updateFCMToken(userId, t), once or twice in a row, on an
\* existing user document: the tokens are those one call leaves, t occurs
\* exactly once among them, the tokens stored before and the other fields
\* are unchanged.
C20_UpdateFCMTokenIdempotent ==
  clients.lastUpdate.times > 0 =>
    LET last == clients.lastUpdate
        doc  == db.users[last.userId]
    IN  /\ UpdateKeeps(last, doc)
        /\ Count(doc.fcmTokens, last.token) = 1

\* C20, amended: as above, but t occurs as many times as it was stored
\* before, and once when it was not stored.
C20_UpdateFCMTokenUnion ==
  clients.lastUpdate.times > 0 =>
    LET last == clients.lastUpdate
        doc  == db.users[last.userId]
        was  == Count(last.before.fcmTokens, last.token)
    IN  /\ UpdateKeeps(last, doc)
        /\ Count(doc.fcmTokens, last.token) = IF was = 0 THEN 1 ELSE was

C20_Witness ==
  /\ clients.lastUpdate.times = 2
  /\ clients.lastUpdate.before.fcmTokens # << >>
  /\ clients.lastUpdate.token \notin Range(clients.lastUpdate.before.fcmTokens)
  /\ Len(db.users[clients.lastUpdate.userId].fcmTokens) =
       Len(clients.lastUpdate.before.fcmTokens) + 1

\* A booking without the two fields updateBookingStatus writes.
Framed(b) == [b EXCEPT !.status = "", !.updatedAt = 0]

\* C21: after updateBookingStatus(bookingId, status) on a stored booking,
\* that booking has the status asked for, whatever its status was, and
\* differs from what it was in status and updatedAt only; every other
\* booking is as it was and no booking was added or removed; and every
\* stored status is 'pending', 'confirmed' or 'cancelled'.
C21_UpdateBookingStatusFrame ==
  /\ \A b \in db.bookings : b.status \in Statuses
  /\ clients.lastStatus.done =>
       LET last == clients.lastStatus
       IN  /\ {b \in db.bookings : b.id # last.bookingId} =
                {b \in last.before : b.id # last.bookingId}
           /\ {b.id : b \in db.bookings} = {b.id : b \in last.before}
           /\ Cardinality(db.bookings) = Cardinality(last.before)
           /\ \A a \in db.bookings : a.id = last.bookingId =>
                /\ a.status = last.status
                /\ \E b \in last.before : b.id = a.id /\ Framed(b) = Framed(a)

C21_Witness ==
  /\ clients.lastStatus.done
  /\ clients.lastStatus.status = "pending"
  /\ \E b \in clients.lastStatus.before :
       b.id = clients.lastStatus.bookingId /\ b.status = "cancelled"
  /\ \E a \in db.bookings :
       /\ a.id = clients.lastStatus.bookingId
       /\ a.status = "pending"
       /\ a.updatedAt > a.createdAt
  /\ Cardinality(db.bookings) = 2

\* The booking a returned call of createBooking stored, as it was stored.
Stored(call) ==
  [id |-> call.id, userId |-> call.data.userId, salonId |-> call.data.salonId,
   date |-> call.data.date, timeSlot |-> call.data.timeSlot, status |-> "",
   createdAt |-> call.id, updatedAt |-> 0]

\* C22: every createBooking call that returned, alone or while another
\* call was on its way, returned an id no other call returned and stored
\* one booking with its data under that id, whatever was booked already;
\* the bookings stored are those of the calls that returned, and a call
\* changes no booking stored before.
C22_CreateBookingNoConflictCheck ==
  /\ \A i, j \in DOMAIN clients.returned :
       i # j => clients.returned[i].id # clients.returned[j].id
  /\ {Framed(b) : b \in db.bookings} =
       {Stored(clients.returned[i]) : i \in DOMAIN clients.returned}
  /\ Cardinality(db.bookings) = Len(clients.returned)

C22_Witness ==
  /\ Len(clients.returned) = 2
  /\ clients.returned[1].data = clients.returned[2].data
  /\ clients.returned[1].overlapped
  /\ \E a, b \in db.bookings :
       /\ a.id # b.id
       /\ a.salonId = b.salonId /\ a.date = b.date /\ a.timeSlot = b.timeSlot

====
